---------------------------- MODULE Spec2Model ----------------------------
(***************************************************************************)
(* A model of sitescan (github.com/davexre/sitescan): the two tree walkers *)
(* and their barrier in main, the map differ compareMaps, and the download *)
(* manager with its worker pool and timeout watcher.                       *)
(*                                                                         *)
(* Go strings are modelled as sequences of one-character strings, so that  *)
(* strings.HasSuffix, strings.HasPrefix, concatenation and the byte-wise   *)
(* order of sort.Strings are computed and not assumed.                     *)
(***************************************************************************)
EXTENDS Integers, Sequences, FiniteSets, TLC

(***************************************************************************)
(* Bounds of the model.                                                    *)
(***************************************************************************)
MaxJobs == 2
MaxWorkers == 2
MaxKeys == 3

(***************************************************************************)
(* Strings.                                                                *)
(***************************************************************************)
\* the ASCII code of a character (only the characters the model uses)
Byte(c) ==
  CASE c = " " -> 32 [] c = "%" -> 37 [] c = "." -> 46 [] c = "/" -> 47 [] c = ":" -> 58
    [] c = "B" -> 66 [] c = "D" -> 68 [] c = "L" -> 76 [] c = "N" -> 78
    [] c = "P" -> 80 [] c = "S" -> 83 [] c = "T" -> 84
    [] c = "a" -> 97 [] c = "b" -> 98 [] c = "c" -> 99 [] c = "d" -> 100
    [] c = "e" -> 101 [] c = "f" -> 102 [] c = "g" -> 103 [] c = "h" -> 104
    [] c = "i" -> 105 [] c = "k" -> 107 [] c = "l" -> 108 [] c = "m" -> 109
    [] c = "n" -> 110 [] c = "o" -> 111 [] c = "p" -> 112 [] c = "r" -> 114
    [] c = "s" -> 115 [] c = "t" -> 116 [] c = "u" -> 117 [] c = "x" -> 120
    [] c = "y" -> 121 [] c = "z" -> 122

HasSuffix(s, suffix) ==
  /\ Len(s) >= Len(suffix)
  /\ SubSeq(s, Len(s) - Len(suffix) + 1, Len(s)) = suffix

HasPrefix(s, prefix) ==
  /\ Len(s) >= Len(prefix)
  /\ SubSeq(s, 1, Len(prefix)) = prefix

\* Go's < on strings: byte-wise lexicographic, a proper prefix is smaller
RECURSIVE StrLess(_, _)
StrLess(a, b) ==
  IF b = <<>> THEN FALSE
  ELSE IF a = <<>> THEN TRUE
  ELSE IF Byte(Head(a)) # Byte(Head(b)) THEN Byte(Head(a)) < Byte(Head(b))
  ELSE StrLess(Tail(a), Tail(b))

Slash == <<"/">>
Http == <<"h", "t", "t", "p">>
dlSuffix == <<".", "s", "i", "t", "e", "s", "c", "a", "n", "d", "l">>

(***************************************************************************)
(* compareMaps (the Map Differ).  A map is a function from its key set.    *)
(***************************************************************************)
\* the orders in which a range loop over a map with key set K may yield the keys
RECURSIVE RangeOrders(_)
RangeOrders(K) ==
  IF K = {} THEN {<<>>}
  ELSE UNION {{<<k>> \o q : q \in RangeOrders(K \ {k})} : k \in K}

RECURSIVE InsertSorted(_, _)
InsertSorted(k, s) ==
  IF s = <<>> THEN <<k>>
  ELSE IF StrLess(k, Head(s)) THEN <<k>> \o s
  ELSE <<Head(s)>> \o InsertSorted(k, Tail(s))

\* the keys left as the range loop yielded them
SortNone(keys) == keys

\* sort.Strings
RECURSIVE SortStrings(_)
SortStrings(keys) ==
  IF keys = <<>> THEN <<>>
  ELSE InsertSorted(Head(keys), SortStrings(Tail(keys)))

RECURSIVE FilterKeys(_, _, _)
FilterKeys(keys, sm2, sup) ==
  IF keys = <<>> THEN <<>>
  ELSE LET k == Head(keys)
           rest == FilterKeys(Tail(keys), sm2, sup)
       IN IF k \notin DOMAIN sm2
            THEN IF HasSuffix(k, Slash)
                   THEN IF ~sup THEN <<k>> \o rest ELSE rest
                   ELSE <<k>> \o rest
            ELSE rest

\* the lists compareMaps(sm1, sm2) can return, one for each order of the range loop
compareMaps(sm1, sm2, sup) ==
  {FilterKeys(SortStrings(keys), sm2, sup) : keys \in RangeOrders(DOMAIN sm1)}


(***************************************************************************)
(* State.                                                                  *)
(***************************************************************************)
VARIABLES
  url1, url2,      \* the two roots (site 1 is the local root of a download)
  download,        \* --download
  noprogress,      \* --noprogress
  dryrun,          \* --dryrun
  suppress,        \* --suppress
  throttle,        \* --throttle: the number of workers
  timeout,         \* --timeout, in hours
  localStat,       \* what os.Stat reports of the local root
  cwd,             \* "local" when the working directory is the local root
  filelist,        \* the jobs handed to downloadManager
  fileschan,       \* the buffered, closed job channel: the jobs not yet received
  mpc,             \* where main / downloadManager stands
  spawnI,          \* the loop variable i of downloadManager's spawn loop
  wg,              \* the global sync.WaitGroup counter
  timechanClosed,  \* close(timechan) has happened
  tpc,             \* where timeoutWorker stands
  exit,            \* the process: running, or exited with a code
  wpc,             \* where each downloadWorker stands
  wfile,           \* the job each worker holds
  wexit,           \* how each worker left its loop
  recvLog,         \* the receives from fileschan, in order: [w, file]
  startLog,        \* the "Worker %d starting %s" lines, in order: [w, file]
  errLog,          \* the error lines printed: <<worker, file, kind>>
  fs,              \* the file system: local final and temp files, dirs, remote modes
  ops,             \* the mutating file system calls and downloads made: <<kind, file>>
  siteMap,         \* site1Map and siteMap2: canonical name -> locator
  siteCounter,     \* site1Counter and site2Counter
  wk,              \* the two walkWrapper goroutines
  upc,             \* where updateProgress stands
  pdone,           \* updateProgress's s1done and s2done
  out              \* the lists main has printed

\* the configuration and the environment
cfgvars == <<url1, url2, download, noprogress, dryrun, suppress, throttle, timeout,
             localStat, cwd>>
\* what the discovery phase and the printing of the lists write
walkvars == <<siteMap, siteCounter, wk, upc, pdone, out>>
\* what no step of downloadManager or of its goroutines writes
envvars == <<cfgvars, walkvars>>
\* what downloadManager and its goroutines write
dmvars == <<filelist, fileschan, mpc, spawnI, wg, timechanClosed, tpc, exit,
            wpc, wfile, wexit, recvLog, startLog, errLog, fs, ops>>
\* what only downloadManager and its goroutines write
dmonly == <<fileschan, spawnI, timechanClosed, tpc,
            wpc, wfile, wexit, recvLog, startLog, errLog, fs, ops>>
vars == <<envvars, dmvars>>

Sites == {1, 2}

Workers == 1..MaxWorkers

\* the entry names the jobs are drawn from
fA == <<"a">>
fDB == <<"d", "/", "b">>
dD == <<"d", "/">>
fTmp == <<"c">> \o dlSuffix
JobNames == {fA, fDB, dD, fTmp}
\* an entry name that is no valid URL path: "%" not followed by two hex digits
fPct == <<"%">>
\* the jobs of the run
Jobs == {filelist[k] : k \in 1..Len(filelist)}

\* a walkWrapper goroutine: where it stands, the pending walkLink call (req), the
\* walkLink calls in progress with the anchors each has still to visit (stack),
\* the outcome of its last listing request or the error filepath.Walk last
\* handed over (resp), its place in filepath.Walk (pos)
WalkerIdle ==
  [pc |-> "idle", req |-> [url |-> <<>>, name |-> <<>>], stack |-> <<>>, resp |-> "none", status |-> 0, pos |-> 0]
WalkerDone ==
  [pc |-> "finished", req |-> [url |-> <<>>, name |-> <<>>], stack |-> <<>>, resp |-> "none", status |-> 0, pos |-> 0]

LocalRoot == <<"/", "l">>
FsRemoteRoot == <<"/", "r">>
HttpRemoteRoot == Http \o <<":", "/", "/", "x">>

\* the bytes of the remote entry (one entry is an empty file)
RemoteContent(file) == IF file = fA THEN <<1, 2>> ELSE <<>>
\* what an interrupted transfer of the entry has written
PartialContent(file) == SubSeq(RemoteContent(file), 1, Len(RemoteContent(file)) \div 2)
\* what a temp file left behind by an earlier run holds
StaleContent == <<9>>

NoFile == [exists |-> FALSE, content |-> <<>>, mode |-> "", linked |-> FALSE]

Running == exit.by = "running"

\* downloadManager's normalisation of its two path arguments
WithSlash(path) == IF ~HasSuffix(path, Slash) THEN path \o Slash ELSE path
LocalPath == WithSlash(url1)
RemotePath == WithSlash(url2)

\* remotepath+file: the address a worker asks of the remote root for a job
RemoteAddr(file) == RemotePath \o file

\* filepath.Dir on the cleaned paths the model uses
RECURSIVE LastSlash(_)
LastSlash(p) ==
  IF p = <<>> THEN 0
  ELSE IF p[Len(p)] = "/" THEN Len(p)
  ELSE LastSlash(SubSeq(p, 1, Len(p) - 1))

Dir(p) ==
  LET i == LastSlash(p)
      d == IF i = 0 THEN <<>> ELSE SubSeq(p, 1, i - 1)
  IN IF i = 0 THEN <<".">>
     ELSE IF i = 1 THEN Slash
     ELSE IF d = <<".">> THEN <<".">>
     ELSE d

(***************************************************************************)
(* downloadManager, timeoutWorker and main's return.                       *)
(***************************************************************************)
\* a check that leaves out the test of the owner's write bit
IsWritableNoModeTest(stat) ==
  IF stat = "missing" THEN [isWritable |-> FALSE, err |-> TRUE]
  ELSE IF stat = "notdir" THEN [isWritable |-> FALSE, err |-> FALSE]
  ELSE IF stat = "notowner" THEN [isWritable |-> FALSE, err |-> FALSE]
  ELSE [isWritable |-> TRUE, err |-> FALSE]

\* writable.IsWritable: [isWritable, err]
IsWritable(stat) ==
  IF stat = "missing" THEN [isWritable |-> FALSE, err |-> TRUE]
  ELSE IF stat = "notdir" THEN [isWritable |-> FALSE, err |-> FALSE]
  ELSE IF stat = "readonly" THEN [isWritable |-> FALSE, err |-> FALSE]
  ELSE IF stat = "notowner" THEN [isWritable |-> FALSE, err |-> FALSE]
  ELSE [isWritable |-> TRUE, err |-> FALSE]

\* the check of the local root: log.Fatal, os.Exit(1), or on to the queue
MgrWritable ==
  /\ Running /\ mpc = "writable"
  /\ LET r == IsWritable(localStat)
     IN IF r.err THEN exit' = [code |-> 1, by |-> "fatal"] /\ mpc' = mpc
        ELSE IF ~r.isWritable
          THEN exit' = [code |-> 1, by |-> "notwritable"] /\ mpc' = mpc
        ELSE exit' = exit /\ mpc' = "load"
  /\ UNCHANGED <<envvars,
                 filelist, fileschan, spawnI, wg, timechanClosed, tpc,
                 wpc, wfile, wexit, recvLog, startLog, errLog, fs, ops>>

\* make(chan string, len(filelist)), the send loop, close(fileschan)
MgrLoad ==
  /\ Running /\ mpc = "load"
  /\ fileschan' = filelist
  /\ spawnI' = 1
  /\ mpc' = "spawn"
  /\ UNCHANGED <<envvars,
                 filelist, wg, timechanClosed, tpc, exit,
                 wpc, wfile, wexit, recvLog, startLog, errLog, fs, ops>>

\* a pool that is one worker short
SpawnCountLess == throttle - 1

\* the number of workers the spawn loop starts
SpawnCount == throttle

\* one iteration of: for i := 1; i <= throttle; i++ { wg.Add(1); go downloadWorker }
MgrSpawn ==
  /\ Running /\ mpc = "spawn" /\ spawnI <= SpawnCount
  /\ wg' = wg + 1
  /\ wpc' = [wpc EXCEPT ![spawnI] = "recv"]
  /\ spawnI' = spawnI + 1
  /\ UNCHANGED <<envvars,
                 filelist, fileschan, mpc, timechanClosed, tpc, exit,
                 wfile, wexit, recvLog, startLog, errLog, fs, ops>>

\* the loop ends; if timeout > 0 { go timeoutWorker(timechan) }
MgrStartTimer ==
  /\ Running /\ mpc = "spawn" /\ ~(spawnI <= SpawnCount)
  /\ tpc' = IF timeout > 0 THEN "select" ELSE tpc
  /\ mpc' = "wait"
  /\ UNCHANGED <<envvars,
                 filelist, fileschan, spawnI, wg, timechanClosed, exit,
                 wpc, wfile, wexit, recvLog, startLog, errLog, fs, ops>>

\* wg.Wait() returns
MgrWait ==
  /\ Running /\ mpc = "wait" /\ wg = 0
  /\ mpc' = IF timeout > 0 THEN "close" ELSE "returned"
  /\ UNCHANGED <<envvars,
                 filelist, fileschan, spawnI, wg, timechanClosed, tpc, exit,
                 wpc, wfile, wexit, recvLog, startLog, errLog, fs, ops>>

\* close(timechan); downloadManager returns
MgrClose ==
  /\ Running /\ mpc = "close"
  /\ timechanClosed' = TRUE
  /\ mpc' = "returned"
  /\ UNCHANGED <<envvars,
                 filelist, fileschan, spawnI, wg, tpc, exit,
                 wpc, wfile, wexit, recvLog, startLog, errLog, fs, ops>>

\* main returns after downloadManager: the process ends with code 0
MainReturn ==
  /\ Running /\ mpc = "returned"
  /\ exit' = [code |-> 0, by |-> "main"]
  /\ UNCHANGED <<envvars,
                 filelist, fileschan, mpc, spawnI, wg, timechanClosed, tpc,
                 wpc, wfile, wexit, recvLog, startLog, errLog, fs, ops>>

\* a watcher that returns without the channel being closed
TimeoutCancelUnasked ==
  /\ Running /\ tpc = "select"
  /\ tpc' = "returned"
  /\ UNCHANGED <<envvars,
                 filelist, fileschan, mpc, spawnI, wg, timechanClosed, exit,
                 wpc, wfile, wexit, recvLog, startLog, errLog, fs, ops>>

\* timeoutWorker's select: the receive from the closed channel
TimeoutCancel ==
  /\ Running /\ tpc = "select" /\ timechanClosed
  /\ tpc' = "returned"
  /\ UNCHANGED <<envvars,
                 filelist, fileschan, mpc, spawnI, wg, timechanClosed, exit,
                 wpc, wfile, wexit, recvLog, startLog, errLog, fs, ops>>

\* a timer that ends the process with status 1
TimeoutFireStatus1 ==
  /\ Running /\ tpc = "select"
  /\ exit' = [code |-> 1, by |-> "timeout"]
  /\ UNCHANGED <<envvars,
                 filelist, fileschan, mpc, spawnI, wg, timechanClosed, tpc,
                 wpc, wfile, wexit, recvLog, startLog, errLog, fs, ops>>

\* timeoutWorker's select: time.After fires, os.Exit(0)
TimeoutFire ==
  /\ Running /\ tpc = "select"
  /\ exit' = [code |-> 0, by |-> "timeout"]
  /\ UNCHANGED <<envvars,
                 filelist, fileschan, mpc, spawnI, wg, timechanClosed, tpc,
                 wpc, wfile, wexit, recvLog, startLog, errLog, fs, ops>>

(***************************************************************************)
(* downloadWorker.                                                         *)
(***************************************************************************)
\* a receive that leaves the job in the channel
DequeuePeek(q) == q

\* what a receive leaves in the channel
Dequeue(q) == Tail(q)

\* a loop that skips directories only
SkippedDirOnly(file) == HasSuffix(file, Slash)

\* the two "continue" tests at the top of the loop
Skipped(file) == HasSuffix(file, Slash) \/ HasSuffix(file, dlSuffix)

\* break: the worker leaves its loop
Break(i, file, kind) ==
  /\ errLog' = errLog \cup {<<i, file, kind>>}
  /\ wpc' = [wpc EXCEPT ![i] = "wgdone"]
  /\ wexit' = [wexit EXCEPT ![i] = "error"]

\* the range over the closed channel ends when no job is left in it
LoopEndsOnAnyError(i) ==
  fileschan = <<>> \/ \E j \in Workers \ {i} : wexit[j] = "error"

LoopEnds(i) == fileschan = <<>>

\* a dry run goes straight back to the receive
DispatchAlways(file) ==
  IF HasPrefix(RemotePath, Http) THEN "download" ELSE "remove"

\* if !dryrun { if strings.HasPrefix(remotepath, "http") { ... } else { ... } }
Dispatch(file) ==
  IF dryrun THEN "recv"
  ELSE IF HasPrefix(RemotePath, Http) THEN "download"
  ELSE "remove"

\* for file := range fileschan, the skips, the "starting" line and the dispatch
WRecv(i) ==
  /\ Running /\ wpc[i] = "recv"
  /\ IF LoopEnds(i)
       THEN /\ wpc' = [wpc EXCEPT ![i] = "wgdone"]
            /\ wexit' = [wexit EXCEPT ![i] = "drained"]
            /\ UNCHANGED <<fileschan, wfile, recvLog, startLog>>
       ELSE LET file == Head(fileschan)
            IN /\ fileschan' = Dequeue(fileschan)
               /\ recvLog' = Append(recvLog, [w |-> i, file |-> file])
               /\ wfile' = [wfile EXCEPT ![i] = file]
               /\ wexit' = wexit
               /\ IF Skipped(file)
                    THEN UNCHANGED <<wpc, startLog>>
                    ELSE /\ startLog' = Append(startLog, [w |-> i, file |-> file])
                         /\ wpc' = [wpc EXCEPT ![i] = Dispatch(file)]
  /\ UNCHANGED <<envvars, filelist, mpc, spawnI, wg, timechanClosed, tpc, exit,
                 errLog, fs, ops>>

HexDigits ==
  {"0", "1", "2", "3", "4", "5", "6", "7", "8", "9",
   "a", "b", "c", "d", "e", "f", "A", "B", "C", "D", "E", "F"}

\* url.Parse, which http.NewRequest applies to the address, accepts a "%" only
\* before two hex digits
ParsesAsURL(u) ==
  \A k \in 1..Len(u) :
    u[k] = "%" => (k + 2 <= Len(u) /\ u[k + 1] \in HexDigits /\ u[k + 2] \in HexDigits)

\* req, _ := grab.NewRequest(...); req.HTTPRequest.SetBasicAuth(...): for an
\* address that does not parse req is nil and the process ends in a panic. Else
\* grab's client.Do starts: the request fails at once, or the temp file
\* localpath+file+dlSuffix starts to fill
WDownload(i) ==
  /\ Running /\ wpc[i] = "download"
  /\ LET file == wfile[i]
     IN IF ~ParsesAsURL(RemoteAddr(file))
          THEN /\ exit' = [code |-> 2, by |-> "panic"]
               /\ UNCHANGED <<fs, ops, wpc, errLog, wexit>>
          ELSE /\ exit' = exit
               /\ \E ok \in BOOLEAN :
                    IF ok
                      THEN /\ fs' = [fs EXCEPT
                                 !.temp[file] = [exists |-> TRUE,
                                                 content |-> PartialContent(file),
                                                 mode |-> "0666", linked |-> FALSE],
                                 !.dirs = @ \cup {Dir(LocalPath \o file)}]
                           /\ ops' = ops \cup {<<"download", file>>,
                                               <<"get", file, RemoteAddr(file)>>}
                           /\ wpc' = [wpc EXCEPT ![i] = "dlwait"]
                           /\ UNCHANGED <<errLog, wexit>>
                      ELSE /\ Break(i, file, "download")
                           /\ ops' = ops \cup {<<"get", file, RemoteAddr(file)>>}
                           /\ fs' = fs
  /\ UNCHANGED <<envvars, filelist, fileschan, mpc, spawnI, wg, timechanClosed, tpc,
                 wfile, recvLog, startLog>>

\* client.Do ends: resp.Err() is nil and the temp file is complete, or not
WDownloadEnd(i) ==
  /\ Running /\ wpc[i] = "dlwait"
  /\ LET file == wfile[i]
     IN \E ok \in BOOLEAN :
          IF ok
            THEN /\ fs' = [fs EXCEPT !.temp[file].content = RemoteContent(file)]
                 /\ wpc' = [wpc EXCEPT ![i] = "rename"]
                 /\ UNCHANGED <<errLog, wexit>>
            ELSE /\ Break(i, file, "download")
                 /\ UNCHANGED fs
  /\ UNCHANGED <<envvars, filelist, fileschan, mpc, spawnI, wg, timechanClosed, tpc,
                 exit, wfile, recvLog, startLog, ops>>

\* the targetdir test, then os.Remove(file + dlSuffix): a path relative to the
\* working directory, which is the temp file of the job only when the working
\* directory is the local root
WRemove(i) ==
  /\ Running /\ wpc[i] = "remove"
  /\ LET file == wfile[i]
         targetdir == Dir(LocalPath \o file)
     IN IF targetdir = <<".">>
          THEN /\ Break(i, file, "targetdir")
               /\ UNCHANGED <<fs, ops>>
          ELSE /\ fs' = IF cwd = "local" THEN [fs EXCEPT !.temp[file] = NoFile] ELSE fs
               /\ ops' = IF cwd = "local" /\ fs.temp[file].exists
                           THEN ops \cup {<<"remove", file>>} ELSE ops
               /\ wpc' = [wpc EXCEPT ![i] = "stat"]
               /\ UNCHANGED <<errLog, wexit>>
  /\ UNCHANGED <<envvars, filelist, fileschan, mpc, spawnI, wg, timechanClosed, tpc,
                 exit, wfile, recvLog, startLog>>

\* os.Stat(targetdir) and, if it does not exist, os.MkdirAll(targetdir, 0777)
WStat(i) ==
  /\ Running /\ wpc[i] = "stat"
  /\ LET file == wfile[i]
         targetdir == Dir(LocalPath \o file)
     IN IF targetdir \notin fs.dirs
          THEN \E ok \in BOOLEAN :
                 IF ok
                   THEN /\ fs' = [fs EXCEPT !.dirs = @ \cup {targetdir}]
                        /\ ops' = ops \cup {<<"mkdir", file>>}
                        /\ wpc' = [wpc EXCEPT ![i] = "link"]
                        /\ UNCHANGED <<errLog, wexit>>
                   ELSE /\ Break(i, file, "mkdir")
                        /\ UNCHANGED <<fs, ops>>
          ELSE /\ wpc' = [wpc EXCEPT ![i] = "link"]
               /\ UNCHANGED <<fs, ops, errLog, wexit>>
  /\ UNCHANGED <<envvars, filelist, fileschan, mpc, spawnI, wg, timechanClosed, tpc,
                 exit, wfile, recvLog, startLog>>

\* os.Link(remotepath+file, targetfile): it fails when the target exists, and may
\* fail otherwise (another device).  On success the copy block is skipped.
WLink(i) ==
  /\ Running /\ wpc[i] = "link"
  /\ LET file == wfile[i]
     IN \E ok \in BOOLEAN :
          IF ok /\ ~fs.final[file].exists
            THEN /\ fs' = [fs EXCEPT
                       !.final[file] = [exists |-> TRUE, content |-> RemoteContent(file),
                                        mode |-> fs.rmode[file], linked |-> TRUE]]
                 /\ ops' = ops \cup {<<"link", file>>,
                                     <<"get", file, RemoteAddr(file)>>}
                 /\ wpc' = [wpc EXCEPT ![i] = "rename"]
            ELSE /\ wpc' = [wpc EXCEPT ![i] = "open"]
                 /\ ops' = ops \cup {<<"get", file, RemoteAddr(file)>>}
                 /\ fs' = fs
  /\ UNCHANGED <<envvars, filelist, fileschan, mpc, spawnI, wg, timechanClosed, tpc,
                 exit, wfile, wexit, recvLog, startLog, errLog>>

\* source, err := os.Open(remotepath + file)
WOpen(i) ==
  /\ Running /\ wpc[i] = "open"
  /\ \E ok \in BOOLEAN :
       IF ok
         THEN /\ wpc' = [wpc EXCEPT ![i] = "create"]
              /\ UNCHANGED <<errLog, wexit>>
         ELSE Break(i, wfile[i], "open")
  /\ UNCHANGED <<envvars, filelist, fileschan, mpc, spawnI, wg, timechanClosed, tpc,
                 exit, wfile, recvLog, startLog, fs, ops>>

\* target, err := os.Create(targetfile + dlSuffix): created or truncated
WCreate(i) ==
  /\ Running /\ wpc[i] = "create"
  /\ LET file == wfile[i]
     IN \E ok \in BOOLEAN :
          IF ok
            THEN /\ fs' = [fs EXCEPT
                       !.temp[file] = [exists |-> TRUE, content |-> <<>>,
                                       mode |-> "0666", linked |-> FALSE]]
                 /\ ops' = ops \cup {<<"create", file>>}
                 /\ wpc' = [wpc EXCEPT ![i] = "copy"]
                 /\ UNCHANGED <<errLog, wexit>>
            ELSE /\ Break(i, file, "create")
                 /\ UNCHANGED <<fs, ops>>
  /\ UNCHANGED <<envvars, filelist, fileschan, mpc, spawnI, wg, timechanClosed, tpc,
                 exit, wfile, recvLog, startLog>>

\* io.Copy(dst, src): what dst holds afterwards and whether an error is returned.
\* A destination that is not open for writing receives nothing: reading an empty
\* src ends at once with no error (the generic copy loop), or the copy is refused
\* (copy_file_range on a read-only descriptor), depending on the build.
IoCopy(dst, src) ==
  IF dst.writable
    THEN {[content |-> dst.content \o src.content, err |-> FALSE]}
    ELSE IF src.content = <<>>
      THEN {[content |-> dst.content, err |-> FALSE],
            [content |-> dst.content, err |-> TRUE]}
      ELSE {[content |-> dst.content, err |-> TRUE]}

\* _, err = io.Copy(source, target): the destination is the handle of the remote
\* file, opened read-only by os.Open, and the source is the new temp file
WCopy(i) ==
  /\ Running /\ wpc[i] = "copy"
  /\ LET file == wfile[i]
         source == [content |-> RemoteContent(file), writable |-> FALSE]
         target == [content |-> fs.temp[file].content, writable |-> TRUE]
     IN \E r \in IoCopy(source, target) :
          IF r.err
            THEN Break(i, file, "copy")
            ELSE /\ wpc' = [wpc EXCEPT ![i] = "rename"]
                 /\ UNCHANGED <<errLog, wexit>>
  /\ UNCHANGED <<envvars, filelist, fileschan, mpc, spawnI, wg, timechanClosed, tpc,
                 exit, wfile, recvLog, startLog, fs, ops>>

\* err := os.Rename(localpath+file+dlSuffix, localpath+file): an error is printed
\* and the loop goes on
WRename(i) ==
  /\ Running /\ wpc[i] = "rename"
  /\ LET file == wfile[i]
     IN IF fs.temp[file].exists
          THEN /\ fs' = [fs EXCEPT !.final[file] = fs.temp[file], !.temp[file] = NoFile]
               /\ ops' = ops \cup {<<"rename", file>>}
               /\ errLog' = errLog
          ELSE /\ errLog' = errLog \cup {<<i, file, "rename">>}
               /\ UNCHANGED <<fs, ops>>
  /\ wpc' = [wpc EXCEPT ![i] = "chmod"]
  /\ UNCHANGED <<envvars, filelist, fileschan, mpc, spawnI, wg, timechanClosed, tpc,
                 exit, wfile, wexit, recvLog, startLog>>

\* _ = os.Chmod(localpath+file, 0777): through a hard link it is the remote
\* file's mode that changes
WChmod(i) ==
  /\ Running /\ wpc[i] = "chmod"
  /\ LET file == wfile[i]
     IN IF fs.final[file].exists
          THEN /\ fs' = [fs EXCEPT
                     !.final[file].mode = "0777",
                     !.rmode[file] = IF fs.final[file].linked THEN "0777" ELSE @]
               /\ ops' = ops \cup {<<"chmod", file>>}
          ELSE UNCHANGED <<fs, ops>>
  /\ wpc' = [wpc EXCEPT ![i] = "recv"]
  /\ UNCHANGED <<envvars, filelist, fileschan, mpc, spawnI, wg, timechanClosed, tpc,
                 exit, wfile, wexit, recvLog, startLog, errLog>>

\* wg.Done() after the loop
WDone(i) ==
  /\ Running /\ wpc[i] = "wgdone"
  /\ wg' = wg - 1
  /\ wpc' = [wpc EXCEPT ![i] = "exited"]
  /\ UNCHANGED <<envvars, filelist, fileschan, mpc, spawnI, timechanClosed, tpc,
                 exit, wfile, wexit, recvLog, startLog, errLog, fs, ops>>

(***************************************************************************)
(* The download manager from its call in main to the end of the process.   *)
(***************************************************************************)
\* the job lists compareMaps can hand over: sorted, without duplicates
JobLists ==
  UNION {compareMaps([n \in K |-> n], <<>>, FALSE) :
           K \in {S \in SUBSET (JobNames \cup {fPct}) : Cardinality(S) <= MaxJobs}}

\* the href path walkLink records for an entry: the listing of the remote
\* server shows the entry "a" under a text that is not its href
Href(n) == IF n = fA THEN <<"a", ".", "b">> ELSE n

\* the maps the walker of the remote root can have made for the jobs: walkFS
\* records each path under itself, walkLink records the href path
RemoteMaps(root, jobs) ==
  IF HasPrefix(root, Http)
    THEN {[n \in jobs |-> Href(n)]}
    ELSE {[n \in jobs |-> n]}

\* the local directories before the run: a directory that is itself a job is missing
InitDirs(jobs) ==
  {LocalRoot} \cup
  (IF \E k \in 1..Len(jobs) : jobs[k] = dD THEN {} ELSE {Dir(WithSlash(LocalRoot) \o fDB)})

InitFs(jobs, stale) ==
  [final |-> [n \in JobNames |-> NoFile],
   temp  |-> [n \in JobNames |->
                IF stale /\ n = fA
                  THEN [exists |-> TRUE, content |-> StaleContent,
                        mode |-> "0666", linked |-> FALSE]
                  ELSE NoFile],
   dirs  |-> InitDirs(jobs),
   rmode |-> [n \in JobNames |-> "0644"]]

\* nothing of downloadManager has run, the process is running
InitIdle ==
  /\ fileschan = <<>>
  /\ spawnI = 0
  /\ wg = 0
  /\ timechanClosed = FALSE
  /\ tpc = "idle"
  /\ exit = [code |-> -1, by |-> "running"]
  /\ wpc = [i \in Workers |-> "idle"]
  /\ wfile = [i \in Workers |-> <<>>]
  /\ wexit = [i \in Workers |-> "none"]
  /\ recvLog = <<>>
  /\ startLog = <<>>
  /\ errLog = {}

\* the state in which main calls downloadManager(url1, url2, filelist): the walks
\* are over, the jobs are the entries of site 2 that site 1 lacks
InitDM ==
  /\ url1 = LocalRoot
  /\ url2 \in {FsRemoteRoot, HttpRemoteRoot}
  /\ download = TRUE
  /\ noprogress = TRUE
  /\ wk = [s \in Sites |-> WalkerDone]
  /\ upc = "idle"
  /\ pdone = [s \in Sites |-> FALSE]
  /\ out = <<>>
  /\ dryrun \in BOOLEAN
  /\ suppress = FALSE
  /\ throttle \in (-1)..MaxWorkers
  /\ timeout \in {0, 1}
  /\ localStat \in {"ok", "missing", "notdir", "readonly", "notowner"}
  /\ cwd \in {"local", "other"}
  /\ filelist \in JobLists
  /\ (\E k \in 1..Len(filelist) : filelist[k] = fPct) => HasPrefix(url2, Http)
  /\ mpc = "writable"
  /\ InitIdle
  /\ \E stale \in BOOLEAN : fs = InitFs(filelist, stale)
  /\ ops = {}
  /\ siteMap \in {[s \in Sites |-> IF s = 2 THEN m ELSE <<>>] : m \in RemoteMaps(url2, Jobs)}
  /\ siteCounter = [s \in Sites |-> IF s = 2 THEN Len(filelist) ELSE 0]

NextDM ==
  \/ MgrWritable \/ MgrLoad \/ MgrSpawn \/ MgrStartTimer \/ MgrWait \/ MgrClose
  \/ MainReturn \/ TimeoutCancel \/ TimeoutFire
  \/ \E i \in Workers :
       \/ WRecv(i) \/ WDownload(i) \/ WDownloadEnd(i)
       \/ WRemove(i) \/ WStat(i) \/ WLink(i) \/ WOpen(i) \/ WCreate(i) \/ WCopy(i)
       \/ WRename(i) \/ WChmod(i) \/ WDone(i)

Spec == InitDM /\ [][NextDM]_vars

\* the scheduler runs every goroutine that can take a step, and every transfer
\* attempt ends; nothing makes the timer fire
WorkerStep(i) ==
  \/ WRecv(i) \/ WDownload(i) \/ WDownloadEnd(i)
  \/ WRemove(i) \/ WStat(i) \/ WLink(i) \/ WOpen(i) \/ WCreate(i) \/ WCopy(i)
  \/ WRename(i) \/ WChmod(i) \/ WDone(i)

MgrStep ==
  \/ MgrWritable \/ MgrLoad \/ MgrSpawn \/ MgrStartTimer \/ MgrWait \/ MgrClose
  \/ MainReturn

\* the runs in which a transfer is attempted: a writable local root, no dry run,
\* nothing left behind by an earlier run
InitTransfer ==
  InitDM /\ localStat = "ok" /\ ~dryrun /\ cwd = "local" /\ ~fs.temp[fA].exists

FairSpec ==
  /\ InitTransfer /\ [][NextDM]_vars
  /\ WF_vars(MgrStep)
  /\ WF_vars(TimeoutCancel)
  /\ \A i \in Workers : WF_vars(WorkerStep(i))

(***************************************************************************)
(* Properties of the download manager.                                     *)
(***************************************************************************)
\* how often a job was received from the channel
RecvCount(file) == Cardinality({n \in 1..Len(recvLog) : recvLog[n].file = file})
\* how often a job is still in the channel
ChanCount(file) == Cardinality({n \in 1..Len(fileschan) : fileschan[n] = file})
\* how often a job was reported as started
StartCount(file) == Cardinality({n \in 1..Len(startLog) : startLog[n].file = file})
Started == 1..throttle
AllErrored == \A i \in Started : wexit[i] = "error"
SomeDrained == \E i \in Started : wexit[i] = "drained"

\* C1 as stated, for a run with at least one worker: when downloadManager
\* returns, every job of the queue has been received exactly once.
C1_EveryJobDelivered ==
  (mpc = "returned" /\ throttle >= 1) => \A file \in Jobs : RecvCount(file) = 1

\* C1, amended: no job is received twice, no job is lost (every job is either
\* still in the channel or was received once), and when downloadManager returns
\* after some worker left its loop on the drained channel, every job was received
\* exactly once.
C1_AtMostOnceAndDrained ==
  /\ \A file \in JobNames : RecvCount(file) <= 1
  /\ \A n \in 1..Len(recvLog) : recvLog[n].file \in Jobs /\ recvLog[n].w \in Started
  /\ mpc \in {"spawn", "wait", "close", "returned"} =>
       \A file \in Jobs : RecvCount(file) + ChanCount(file) = 1
  /\ (mpc = "returned" /\ SomeDrained) => \A file \in Jobs : RecvCount(file) = 1

\* two jobs went to two different workers and the manager returned
C1_Witness ==
  /\ mpc = "returned" /\ SomeDrained
  /\ Len(recvLog) >= 2
  /\ recvLog[1].w # recvLog[2].w

\* C2 as stated: once a worker has left its loop on an error, the jobs left in
\* the queue are all dequeued by the time the manager returns.
C2_RemainingJobsDrained ==
  (mpc = "returned" /\ \E i \in Started : wexit[i] = "error") => fileschan = <<>>

\* the step by which worker i leaves its loop on an error touches neither the
\* channel, nor another worker, nor the process
ErrorExitIsLocal ==
  \A i \in Workers :
    (wexit[i] # "error" /\ wexit'[i] = "error") =>
      /\ fileschan' = fileschan
      /\ exit' = exit
      /\ wg' = wg
      /\ \A j \in Workers \ {i} :
           wpc'[j] = wpc[j] /\ wfile'[j] = wfile[j] /\ wexit'[j] = wexit[j]

\* C2, amended: a worker's exit on an error changes nothing of the other workers
\* or of the queue, and the jobs still queued while the manager waits are
\* eventually all dequeued unless every worker leaves its loop on an error (then
\* they stay in the queue) or the process is ended, by the timeout or by the
\* panic of a worker whose request could not be built.
C2_DrainedUnlessAllErrored ==
  /\ [][ErrorExitIsLocal]_vars
  /\ (mpc = "wait" /\ fileschan # <<>>)
       ~> (fileschan = <<>> \/ AllErrored \/ exit.by \in {"timeout", "panic"})

\* one worker left on an error and another received a job after that
C2_Witness ==
  /\ \E i \in Started : wexit[i] = "error"
  /\ fileschan = <<>>
  /\ Len(recvLog) >= 2
  /\ wexit[recvLog[1].w] = "error"
  /\ recvLog[2].w # recvLog[1].w
  /\ ~Skipped(recvLog[1].file)

\* C3: a file that exists under its final name local_root+name holds the complete
\* content of the remote entry, in every reachable state (the state in which the
\* timeout watcher ends the process included).
C3_FinalNameIsComplete ==
  \A n \in JobNames :
    fs.final[n].exists => fs.final[n].content = RemoteContent(n)

\* worker i is done with the job it holds
DoneWith(i) == wpc[i] \in {"recv", "wgdone", "exited"} /\ wfile[i] # <<>>

\* C4: with a filesystem remote root, a job whose hard link failed and whose copy
\* path ran (source opened, temp file created) ends with the final file holding
\* the bytes of the remote file and with no temp file of the job left.
C4_CopyFallbackIdentical ==
  \A i \in Workers :
    (DoneWith(i) /\ <<"create", wfile[i]>> \in ops) =>
      /\ fs.final[wfile[i]].exists
      /\ fs.final[wfile[i]].content = RemoteContent(wfile[i])
      /\ ~fs.temp[wfile[i]].exists

\* C5: with a filesystem remote root, a job whose hard link succeeded is done by
\* the link alone: no temp file is created for it, no error line is printed for
\* it, and the worker does not leave its loop because of it.
C5_LinkAlone ==
  \A i \in Workers :
    (DoneWith(i) /\ <<"link", wfile[i]>> \in ops) =>
      /\ <<"create", wfile[i]>> \notin ops
      /\ \A e \in errLog : e[2] # wfile[i]
      /\ wexit[i] # "error"

\* C10 as stated: in a dry run nothing of the file system changes, nothing is
\* downloaded, and when the manager returns every job that is neither a directory
\* nor temp-suffixed has been reported as started exactly once, whatever the
\* worker count.
C10_DryRunAnyWorkerCount ==
  dryrun =>
    /\ ops = {}
    /\ fs = InitFs(filelist, fs.temp[fA].exists)
    /\ mpc = "returned" =>
         \A file \in Jobs : ~Skipped(file) => StartCount(file) = 1

\* C10, amended: in a dry run nothing of the file system changes and nothing is
\* downloaded, whatever the job list and the worker count; no job is reported as
\* started twice, no skipped job is reported, the worker reporting a job is the
\* one that received it; and when the manager returns with a worker count of at
\* least 1, every job that is neither a directory nor temp-suffixed has been
\* reported exactly once.
C10_DryRun ==
  dryrun =>
    /\ ops = {}
    /\ errLog = {}
    /\ fs = InitFs(filelist, fs.temp[fA].exists)
    /\ \A file \in JobNames : StartCount(file) <= 1
    /\ \A n \in 1..Len(startLog) :
         /\ ~Skipped(startLog[n].file)
         /\ \E m \in 1..Len(recvLog) : recvLog[m] = startLog[n]
    /\ (mpc = "returned" /\ throttle >= 1) =>
         \A file \in Jobs : ~Skipped(file) => StartCount(file) = 1

\* a dry run of two file jobs and a stale temp file, reported by two workers,
\* has returned
C10_Witness ==
  /\ dryrun /\ mpc = "returned"
  /\ Len(startLog) >= 2
  /\ startLog[1].w # startLog[2].w
  /\ fs.temp[fA].exists

(***************************************************************************)
(* main after the barrier: the diff, printed or handed to downloadManager. *)
(***************************************************************************)
\* if download { filelist := compareMaps(&site2Map, &site1Map); downloadManager(...) }
MainDiffDownload ==
  /\ Running /\ mpc = "diff" /\ download
  /\ \E r \in compareMaps(siteMap[2], siteMap[1], suppress) : filelist' = r
  /\ mpc' = "writable"
  /\ UNCHANGED <<envvars, dmonly, wg, exit>>

\* else: the list of what only site 1 has is printed
MainPrint1 ==
  /\ Running /\ mpc = "diff" /\ ~download
  /\ \E r \in compareMaps(siteMap[1], siteMap[2], suppress) : out' = Append(out, r)
  /\ mpc' = "print2"
  /\ UNCHANGED <<cfgvars, siteMap, siteCounter, wk, upc, pdone, dmonly, filelist, wg, exit>>

\* then the list of what only site 2 has
MainPrint2 ==
  /\ Running /\ mpc = "print2"
  /\ \E r \in compareMaps(siteMap[2], siteMap[1], suppress) : out' = Append(out, r)
  /\ mpc' = "returned"
  /\ UNCHANGED <<cfgvars, siteMap, siteCounter, wk, upc, pdone, dmonly, filelist, wg, exit>>

\* the entry names the maps of the differ are drawn from
DiffNames ==
  {<<"a">>, <<"a", "/">>, <<"a", "/", "b">>, <<"a", ".", "b">>, <<"B">>, <<"b", "/">>}

\* the maps with at most MaxKeys keys; the locators are the keys or not
DiffMaps ==
  UNION {{[n \in K |-> n], [n \in K |-> <<"x">> \o n]} :
           K \in {S \in SUBSET DiffNames : Cardinality(S) <= MaxKeys}}

\* main just after the barrier, with any two completed maps
InitDiff ==
  /\ url1 = LocalRoot
  /\ url2 = FsRemoteRoot
  /\ download \in BOOLEAN
  /\ noprogress = TRUE
  /\ dryrun = FALSE
  /\ suppress \in BOOLEAN
  /\ throttle = 1
  /\ timeout = 0
  /\ localStat = "ok"
  /\ cwd = "other"
  /\ filelist = <<>>
  /\ mpc = "diff"
  /\ InitIdle
  /\ fs = InitFs(<<>>, FALSE)
  /\ ops = {}
  /\ siteMap \in [Sites -> DiffMaps]
  /\ siteCounter = [s \in Sites |-> Cardinality(DOMAIN siteMap[s])]
  /\ wk = [s \in Sites |-> WalkerDone]
  /\ upc = "idle"
  /\ pdone = [s \in Sites |-> FALSE]
  /\ out = <<>>

NextDiff == MainDiffDownload \/ MainPrint1 \/ MainPrint2 \/ MainReturn

SpecDiff == InitDiff /\ [][NextDiff]_vars

\* a < b in the byte-wise order of strings
BytewiseLess(a, b) ==
  \E k \in 1..Len(b) :
    /\ \A m \in 1..(k - 1) : m <= Len(a) /\ a[m] = b[m]
    /\ k > Len(a) \/ Byte(a[k]) < Byte(b[k])

\* r lists exactly the keys of A that are not keys of B (without those ending in
\* "/" when sup is set), in strictly ascending byte-wise order
IsDiff(r, A, B, sup) ==
  /\ {r[i] : i \in 1..Len(r)} =
       {k \in DOMAIN A : k \notin DOMAIN B /\ (sup => k[Len(k)] # "/")}
  /\ \A i, j \in 1..Len(r) : i < j => BytewiseLess(r[i], r[j])

\* C6: every list compareMaps returns is the list of the keys of its first map
\* that are not keys of its second, each once, in ascending byte-wise order, less
\* the keys ending in "/" when suppress is set; it is the same whatever the
\* locators and whatever the order in which the map is ranged over.
C6_CompareMaps ==
  /\ Len(out) >= 1 => IsDiff(out[1], siteMap[1], siteMap[2], suppress)
  /\ Len(out) >= 2 => IsDiff(out[2], siteMap[2], siteMap[1], suppress)
  /\ mpc = "writable" => IsDiff(filelist, siteMap[2], siteMap[1], suppress)

\* both lists are printed; the first suppresses a directory, keeps two keys of
\* which the upper-case one comes first, and the locators are not the keys
C6_Witness ==
  /\ Len(out) = 2 /\ suppress
  /\ out[1] = << <<"B">>, <<"a", ".", "b">> >>
  /\ <<"a", "/">> \in DOMAIN siteMap[1] /\ <<"a", "/">> \notin DOMAIN siteMap[2]
  /\ siteMap[1][<<"B">>] # <<"B">>

(***************************************************************************)
(* The discovery phase: main, the two walkWrapper goroutines, walkLink,    *)
(* walkFS and updateProgress.                                              *)
(***************************************************************************)
ignoreThese ==
  {<<"N", "a", "m", "e">>,
   <<"L", "a", "s", "t", " ", "m", "o", "d", "i", "f", "i", "e", "d">>,
   <<"S", "i", "z", "e">>,
   <<"D", "e", "s", "c", "r", "i", "p", "t", "i", "o", "n">>,
   <<"P", "a", "r", "e", "n", "t", " ", "D", "i", "r", "e", "c", "t", "o", "r", "y">>,
   <<"T", "y", "p", "e">>,
   <<".", ".">>,
   <<".", ".", "/">>}

HttpRootY == Http \o <<":", "/", "/", "y">>
BadUrl == Http \o <<":", "x">>
MissingRoot == <<"/", "m">>

Anchor(text, href) == [text |-> text, href |-> href, hasHref |-> TRUE]
NoHref(text) == [text |-> text, href |-> <<>>, hasHref |-> FALSE]

\* the listing a server answers with status 200: the anchors of the page at the
\* url (relative to the root), in document order
Page(root, url) ==
  IF root = HttpRemoteRoot
    THEN IF url = <<>>
           THEN <<Anchor(<<"N", "a", "m", "e">>, <<"n">>),
                  Anchor(<<"d">>, <<"d", "/">>),
                  NoHref(<<"x">>),
                  Anchor(<<"a">>, <<"a">>)>>
           ELSE <<Anchor(<<"b">>, <<"b">>)>>
    ELSE IF url = <<>>
           THEN <<Anchor(<<".", ".", "/">>, <<".", ".", "/">>),
                  Anchor(<<"d", "/">>, <<"d", "/">>),
                  Anchor(<<"c">>, <<"c">>),
                  Anchor(<<"e", "/">>, <<"e">>)>>
         ELSE IF url = <<"d", "/">>
           THEN <<Anchor(<<"b">>, <<"b">>),
                  Anchor(<<"g", "/", "/">>, <<"g", "/">>)>>
         ELSE <<Anchor(<<"f">>, <<"f">>),
                Anchor(<<"f">>, <<"f">>)>>

\* the body of an answer whose status is not 2xx: an error page with a link
ErrorPage == <<Anchor(<<"h">>, <<"h">>)>>

\* what webhandler.HTTPHandler and goquery.NewDocumentFromReader can yield: an
\* error, a nil response, a body that cannot be parsed, a parsed answer of any status
FetchOutcomes == {"err", "nil", "parsefail", "ok200", "ok404"}
Status(o) == IF o = "ok200" THEN 200 ELSE IF o = "ok404" THEN 404 ELSE 0

\* only an error of the request is treated as fatal
FetchFatalErrOnly(o) == o = "err"

\* walkLink's log.Fatal cases: err != nil, response == nil, the parse error
FetchFatal(o) == o \in {"err", "nil", "parsefail"}

\* the anchors doc.Find("a") yields for the answer
Body(root, url, o) ==
  IF o = "ok200" THEN Page(root, url)
  ELSE IF o = "ok404" THEN ErrorPage
  ELSE <<>>

Root(s) == IF s = 1 THEN url1 ELSE url2

\* a counter that is left as it is
IncrNot(c) == c

\* counter.Incr()
Incr(c) == c + 1

\* (*siteMap)[name] = locator
MapPut(m, name, locator) ==
  [k \in DOMAIN m \cup {name} |-> IF k = name THEN locator ELSE m[k]]

\* walkWrapper's dispatch on the root
WalkStart(s) ==
  /\ Running /\ wk[s].pc = "start"
  /\ wk' = [wk EXCEPT ![s] =
              IF HasPrefix(Root(s), Http)
                THEN [@ EXCEPT !.pc = "fetch", !.req = [url |-> <<>>, name |-> <<>>]]
                ELSE [@ EXCEPT !.pc = "fswalk", !.pos = 1]]
  /\ UNCHANGED <<cfgvars, siteMap, siteCounter, upc, pdone, out, dmvars>>

\* walkLink up to doc.Find: the request, the two fatal cases, the parse
WalkFetch(s) ==
  /\ Running /\ wk[s].pc = "fetch"
  /\ \E o \in FetchOutcomes :
       IF FetchFatal(o)
         THEN /\ exit' = [code |-> 1, by |-> "fatal"]
              /\ wk' = [wk EXCEPT ![s].resp = o, ![s].status = Status(o)]
         ELSE /\ exit' = exit
              /\ wk' = [wk EXCEPT
                   ![s].resp = o,
                   ![s].status = Status(o),
                   ![s].pc = "each",
                   ![s].stack = Append(@, [url |-> wk[s].req.url,
                                           name |-> wk[s].req.name,
                                           anchors |-> Body(Root(s), wk[s].req.url, o)])]
  /\ UNCHANGED <<cfgvars, siteMap, siteCounter, upc, pdone, out,
                 dmonly, filelist, mpc, wg>>

\* a test that looks at the href only
AcceptedAnyText(a) == a.hasHref

\* the two tests an anchor passes to become an entry
Accepted(a) == a.text \notin ignoreThese /\ a.hasHref

\* oururl := url + href
OurUrl(url, a) == url \o a.href

\* a name to which no separator is ever appended
OurNameAsIs(currentName, a) == currentName \o a.text

\* ourname := currentName + s.Text(), with "/" appended for an href that ends in
\* "/" when the name does not
OurName(currentName, a) ==
  LET joined == currentName \o a.text
  IN IF HasSuffix(a.href, Slash) /\ ~HasSuffix(joined, Slash)
       THEN joined \o Slash ELSE joined

\* the test before the nested call of walkLink
Recurses(a) == HasSuffix(a.href, Slash)

\* one call of the function given to doc.Find("a").Each, or the return of
\* walkLink when no anchor is left
WalkEach(s) ==
  /\ Running /\ wk[s].pc = "each"
  /\ LET n == Len(wk[s].stack)
         top == wk[s].stack[n]
     IN IF top.anchors = <<>>
          THEN /\ wk' = [wk EXCEPT
                    ![s].stack = SubSeq(@, 1, n - 1),
                    ![s].pc = IF n = 1 THEN "walked" ELSE "each"]
               /\ UNCHANGED <<siteMap, siteCounter>>
          ELSE LET a == Head(top.anchors)
                   oururl == OurUrl(top.url, a)
                   ourname == OurName(top.name, a)
                   rest == [wk[s].stack EXCEPT ![n].anchors = Tail(@)]
               IN IF Accepted(a)
                    THEN /\ siteCounter' = [siteCounter EXCEPT ![s] = Incr(@)]
                         /\ siteMap' = [siteMap EXCEPT ![s] = MapPut(@, ourname, oururl)]
                         /\ wk' = [wk EXCEPT
                              ![s].stack = rest,
                              ![s].pc = IF Recurses(a) THEN "fetch" ELSE "each",
                              ![s].req = IF Recurses(a)
                                           THEN [url |-> oururl, name |-> ourname]
                                           ELSE @]
                    ELSE /\ wk' = [wk EXCEPT ![s].stack = rest]
                         /\ UNCHANGED <<siteMap, siteCounter>>
  /\ UNCHANGED <<cfgvars, upc, pdone, out, dmvars>>

\* a directory tree as filepath.Walk visits it: the root, then every entry in
\* lexical order, a directory before what it holds; rel is the path below the
\* root, flaky marks the directory whose read can fail
Node(rel, name, isDir, flaky) ==
  [rel |-> rel, name |-> name, isDir |-> isDir, flaky |-> flaky]

\* a root whose own name begins with "."
HiddenRoot == <<"/", ".", "s">>

\* the remote directory given with a trailing separator
SlashRoot == FsRemoteRoot \o Slash

Tree(root) ==
  IF root = LocalRoot
    THEN <<Node(<<>>, <<"l">>, TRUE, FALSE),
           Node(<<".", "g">>, <<".", "g">>, TRUE, FALSE),
           Node(<<".", "g", "/", "k">>, <<"k">>, FALSE, FALSE),
           Node(<<"a">>, <<"a">>, FALSE, FALSE),
           Node(<<"d">>, <<"d">>, TRUE, TRUE),
           Node(<<"d", "/", "b">>, <<"b">>, FALSE, FALSE),
           Node(<<"e">>, <<"e">>, FALSE, FALSE)>>
    ELSE IF root = HiddenRoot
    THEN <<Node(<<>>, <<".", "s">>, TRUE, FALSE),
           Node(<<"m">>, <<"m">>, FALSE, FALSE)>>
    ELSE <<Node(<<>>, <<"r">>, TRUE, TRUE),
           Node(<<".", "h">>, <<".", "h">>, FALSE, FALSE),
           Node(<<"c">>, <<"c">>, FALSE, FALSE),
           Node(<<"d">>, <<"d">>, TRUE, FALSE),
           Node(<<"d", "/", ".", "e">>, <<".", "e">>, FALSE, FALSE),
           Node(<<"d", "/", "b">>, <<"b">>, FALSE, FALSE)>>

\* the error filepath.Walk hands to the function for a node
WalkErrors(node) == IF node.flaky THEN {"none", "perm", "other"} ELSE {"none"}

\* a test that takes no error for a permission error
IsPermissionNever(err) == FALSE

\* os.IsPermission(err)
IsPermission(err) == err = "perm"

\* a test that finds no name hidden
HiddenNever(name) == FALSE

\* strings.HasPrefix(info.Name(), ".")
Hidden(name) == HasPrefix(name, <<".">>)

\* filepath.Clean of a root: without the trailing separator
Clean(p) == IF Len(p) > 1 /\ HasSuffix(p, Slash) THEN SubSeq(p, 1, Len(p) - 1) ELSE p

\* the path filepath.Walk gives for a node: the root as it was given, and
\* filepath.Join(dir, name) below it
NodePath(basepath, node) ==
  IF node.rel = <<>> THEN basepath ELSE Clean(basepath) \o Slash \o node.rel

TrimPrefix(s, prefix) ==
  IF HasPrefix(s, prefix) THEN SubSeq(s, Len(prefix) + 1, Len(s)) ELSE s

\* node j lies below the directory node d
Below(tree, j, d) ==
  tree[d].rel = <<>> \/ HasPrefix(tree[j].rel, tree[d].rel \o Slash)

\* where the walk goes on after filepath.SkipDir for the directory at pos
SkipDir(tree, pos) ==
  LET after == {j \in (pos + 1)..Len(tree) : ~Below(tree, j, pos)}
  IN IF after = {} THEN Len(tree) + 1
     ELSE CHOOSE j \in after : \A k \in after : j <= k

\* a directory recorded under its bare path
DirNameBare(filepath) == filepath

\* dirname := fmt.Sprintf("%s%s", filepath, "/")
DirName(filepath) == filepath \o Slash

\* one call of the function walkFS gives to filepath.Walk, or the return of
\* walkFS when the tree is exhausted
WalkFS(s) ==
  /\ Running /\ wk[s].pc = "fswalk"
  /\ LET tree == Tree(Root(s))
         pos == wk[s].pos
     IN IF pos > Len(tree)
          THEN /\ wk' = [wk EXCEPT ![s].pc = "walked"]
               /\ UNCHANGED <<siteMap, siteCounter, exit>>
          ELSE LET node == tree[pos]
                   path == NodePath(Root(s), node)
                   filepath == TrimPrefix(path, Root(s) \o Slash)
               IN \E err \in WalkErrors(node) :
                    IF err # "none" /\ ~IsPermission(err)
                      THEN /\ exit' = [code |-> 1, by |-> "fatal"]
                           /\ wk' = [wk EXCEPT ![s].resp = err]
                           /\ UNCHANGED <<siteMap, siteCounter>>
                    ELSE IF err # "none"
                      THEN /\ wk' = [wk EXCEPT ![s].pos = SkipDir(tree, pos),
                                               ![s].resp = err]
                           /\ UNCHANGED <<siteMap, siteCounter, exit>>
                    ELSE IF path = Root(s)
                      THEN /\ wk' = [wk EXCEPT ![s].pos = pos + 1]
                           /\ UNCHANGED <<siteMap, siteCounter, exit>>
                    ELSE IF node.isDir /\ Hidden(node.name)
                      THEN /\ wk' = [wk EXCEPT ![s].pos = SkipDir(tree, pos)]
                           /\ UNCHANGED <<siteMap, siteCounter, exit>>
                    ELSE IF ~node.isDir /\ Hidden(node.name)
                      THEN /\ wk' = [wk EXCEPT ![s].pos = pos + 1]
                           /\ UNCHANGED <<siteMap, siteCounter, exit>>
                    ELSE /\ siteCounter' = [siteCounter EXCEPT ![s] = Incr(@)]
                         /\ siteMap' = [siteMap EXCEPT ![s] =
                              IF node.isDir
                                THEN MapPut(@, DirName(filepath), filepath)
                                ELSE MapPut(@, filepath, filepath)]
                         /\ wk' = [wk EXCEPT ![s].pos = pos + 1]
                         /\ exit' = exit
  /\ UNCHANGED <<cfgvars, upc, pdone, out, dmonly, filelist, mpc, wg>>

\* walkWrapper with --noprogress: nothing is sent on the done channel
WalkNoSend(s) ==
  /\ Running /\ wk[s].pc = "walked" /\ noprogress
  /\ wk' = [wk EXCEPT ![s].pc = "wgdone"]
  /\ UNCHANGED <<cfgvars, siteMap, siteCounter, upc, pdone, out, dmvars>>

\* a send that goes through without updateProgress taking the message
WalkSendUnreceived(s) ==
  /\ Running /\ wk[s].pc = "walked" /\ ~noprogress
  /\ wk' = [wk EXCEPT ![s].pc = "wgdone"]
  /\ UNCHANGED <<cfgvars, siteMap, siteCounter, upc, pdone, out, dmvars>>

\* done <- true in walkWrapper meets case s1done = <-site1done (or the one of
\* site 2) in updateProgress: the channels are unbuffered
ProgressDone(s) ==
  /\ Running /\ wk[s].pc = "walked" /\ ~noprogress /\ upc = "loop"
  /\ wk' = [wk EXCEPT ![s].pc = "wgdone"]
  /\ pdone' = [pdone EXCEPT ![s] = TRUE]
  /\ UNCHANGED <<cfgvars, siteMap, siteCounter, upc, out, dmvars>>

\* wg.Done() at the end of walkWrapper
WalkWgDone(s) ==
  /\ Running /\ wk[s].pc = "wgdone"
  /\ wk' = [wk EXCEPT ![s].pc = "finished"]
  /\ wg' = wg - 1
  /\ UNCHANGED <<cfgvars, siteMap, siteCounter, upc, pdone, out,
                 dmonly, filelist, mpc, exit>>

\* url.Parse as far as ValidateURL looks at it: the scheme before the first
\* ":", the host between "//" and the next "/"
Colon(u) ==
  IF \E k \in 1..Len(u) : u[k] = ":"
    THEN CHOOSE k \in 1..Len(u) : u[k] = ":" /\ \A m \in 1..(k - 1) : u[m] # ":"
    ELSE 0
Scheme(u) == IF Colon(u) = 0 THEN <<>> ELSE SubSeq(u, 1, Colon(u) - 1)
Host(u) ==
  LET rest == SubSeq(u, Colon(u) + 1, Len(u))
  IN IF Colon(u) = 0 \/ ~HasPrefix(rest, <<"/", "/">>) THEN <<>>
     ELSE LET auth == SubSeq(rest, 3, Len(rest))
          IN IF \E k \in 1..Len(auth) : auth[k] = "/"
               THEN SubSeq(auth, 1,
                      (CHOOSE k \in 1..Len(auth) :
                         auth[k] = "/" /\ \A m \in 1..(k - 1) : auth[m] # "/") - 1)
               ELSE auth

ValidateURL(u) ==
  /\ Scheme(u) \in {Http, Http \o <<"s">>}
  /\ Host(u) # <<>>

\* os.Stat of a root given as a path
PathExists(p) == p \in {LocalRoot, FsRemoteRoot, HiddenRoot, SlashRoot}

\* checks that let --download through with an HTTP site 1
ConfigErrorNoDownloadTest ==
  \/ url1 = url2
  \/ IF HasPrefix(url1, Http)
       THEN ~ValidateURL(url1)
       ELSE ~PathExists(url1)
  \/ IF HasPrefix(url2, Http)
       THEN ~ValidateURL(url2)
       ELSE ~PathExists(url2)

\* the checks of main that end the run with status 1 before anything is started
ConfigError ==
  \/ url1 = url2
  \/ IF HasPrefix(url1, Http)
       THEN download \/ ~ValidateURL(url1)
       ELSE ~PathExists(url1)
  \/ IF HasPrefix(url2, Http)
       THEN ~ValidateURL(url2)
       ELSE ~PathExists(url2)

MainValidate ==
  /\ Running /\ mpc = "validate"
  /\ IF ConfigError
       THEN exit' = [code |-> 1, by |-> "config"] /\ mpc' = mpc
       ELSE exit' = exit /\ mpc' = "launch1"
  /\ UNCHANGED <<envvars, dmonly, filelist, wg>>

\* wg.Add(1); go walkWrapper(...) for site s
MainLaunch(s) ==
  /\ Running /\ mpc = IF s = 1 THEN "launch1" ELSE "launch2"
  /\ wg' = wg + 1
  /\ wk' = [wk EXCEPT ![s].pc = "start"]
  /\ mpc' = IF s = 1 THEN "launch2" ELSE "progress"
  /\ UNCHANGED <<cfgvars, siteMap, siteCounter, upc, pdone, out,
                 dmonly, filelist, exit>>

\* a main that goes on to wg.Wait() without starting updateProgress
MainProgressNoUpdater ==
  /\ Running /\ mpc = "progress"
  /\ mpc' = "waitwalk"
  /\ UNCHANGED <<cfgvars, siteMap, siteCounter, wk, upc, pdone, out,
                 dmonly, filelist, wg, exit>>

\* if !noprogress { ...; go updateProgress() }
MainProgress ==
  /\ Running /\ mpc = "progress"
  /\ upc' = IF noprogress THEN upc ELSE "loop"
  /\ mpc' = "waitwalk"
  /\ UNCHANGED <<cfgvars, siteMap, siteCounter, wk, pdone, out,
                 dmonly, filelist, wg, exit>>

\* a barrier that opens when one walker is still counted
BarrierOpenEarly == wg <= 1

\* wg.Wait() returns when the counter is zero
BarrierOpen == wg = 0

MainWait ==
  /\ Running /\ mpc = "waitwalk" /\ BarrierOpen
  /\ mpc' = IF noprogress THEN "diff" ELSE "stop"
  /\ UNCHANGED <<envvars, dmonly, filelist, wg, exit>>

\* stopupdating <- true meets case <-stopupdating; updateProgress returns
MainStop ==
  /\ Running /\ mpc = "stop" /\ upc = "loop"
  /\ upc' = "returned"
  /\ mpc' = "diff"
  /\ UNCHANGED <<cfgvars, siteMap, siteCounter, wk, pdone, out,
                 dmonly, filelist, wg, exit>>

\* the pairs of roots of a run; five of them are refused by main
RootPairs ==
  {<<HttpRemoteRoot, HttpRootY>>, <<LocalRoot, HttpRemoteRoot>>,
   <<LocalRoot, FsRemoteRoot>>, <<HttpRemoteRoot, FsRemoteRoot>>,
   <<LocalRoot, HttpRootY>>, <<HiddenRoot, FsRemoteRoot>>,
   <<FsRemoteRoot, SlashRoot>>,
   <<LocalRoot, LocalRoot>>, <<LocalRoot, BadUrl>>, <<MissingRoot, FsRemoteRoot>>,
   <<BadUrl, FsRemoteRoot>>, <<LocalRoot, MissingRoot>>}

InitWalk ==
  /\ \E p \in RootPairs : url1 = p[1] /\ url2 = p[2]
  /\ download \in BOOLEAN
  /\ noprogress \in BOOLEAN
  /\ dryrun = FALSE
  /\ suppress \in BOOLEAN
  /\ throttle = 1
  /\ timeout = 0
  /\ localStat = "ok"
  /\ cwd = "other"
  /\ filelist = <<>>
  /\ mpc = "validate"
  /\ InitIdle
  /\ fs = InitFs(<<>>, FALSE)
  /\ ops = {}
  /\ siteMap = [s \in Sites |-> <<>>]
  /\ siteCounter = [s \in Sites |-> 0]
  /\ wk = [s \in Sites |-> WalkerIdle]
  /\ upc = "idle"
  /\ pdone = [s \in Sites |-> FALSE]
  /\ out = <<>>

Walker(s) ==
  \/ WalkStart(s) \/ WalkFetch(s) \/ WalkEach(s) \/ WalkFS(s)
  \/ WalkNoSend(s) \/ ProgressDone(s) \/ WalkWgDone(s)

NextWalk ==
  \/ MainValidate
  \/ \E s \in Sites : MainLaunch(s)
  \/ MainProgress
  \/ MainWait
  \/ MainStop
  \/ \E s \in Sites : Walker(s)
  \/ MainDiffDownload \/ MainPrint1 \/ MainPrint2 \/ MainReturn

SpecWalk == InitWalk /\ [][NextWalk]_vars

\* the Go scheduler runs every goroutine that can take a step: main up to the
\* diff phase and each walkWrapper; a send and a receive that are both ready on
\* an unbuffered channel meet
FairWalk ==
  /\ InitWalk /\ [][NextWalk]_vars
  /\ WF_vars(MainValidate \/ MainLaunch(1) \/ MainLaunch(2) \/ MainProgress
               \/ MainWait \/ MainStop)
  /\ \A s \in Sites : WF_vars(Walker(s))

\* main is in or past the diff phase: compareMaps is about to be, or has been, called
InDiff == mpc \in {"diff", "print2", "writable", "returned"}

\* C7: main reaches the diff phase, and so reads a site map, only when both
\* walkWrapper goroutines have ended (traversal done, wg.Done called), and from
\* then on no step changes either map or either counter.
C7_DiffAfterBarrier ==
  /\ [](InDiff => \A s \in Sites : wk[s].pc = "finished")
  /\ [][InDiff => (siteMap' = siteMap /\ siteCounter' = siteCounter)]_vars

\* with the progress display on, both walkers have filled their maps and told
\* updateProgress, and main has printed the first list
C7_Witness ==
  /\ mpc = "print2" /\ ~noprogress /\ upc = "returned"
  /\ \A s \in Sites : pdone[s] /\ wk[s].pc = "finished" /\ siteCounter[s] >= 2
  /\ Len(out) = 1 /\ out[1] # <<>>

\* a walker whose last listing could not be fetched or parsed
FetchFailed(s) == wk[s].resp \in {"err", "nil", "parsefail"}

\* C8: when a listing fetch or its parse fails in a walker (an error, a nil
\* response, an unparsable body) the process has exited with status 1: nothing
\* has been printed by the differ, main is not in the diff phase, no job list is
\* made and no worker is started; and once the process has exited nothing moves
\* any more, so the other walker never finishes.
C8_FetchFailureIsFatal ==
  /\ []((\E s \in Sites : FetchFailed(s)) =>
          /\ exit = [code |-> 1, by |-> "fatal"]
          /\ out = <<>> /\ ~InDiff /\ filelist = <<>>
          /\ \A i \in Workers : wpc[i] = "idle")
  /\ [][~Running => UNCHANGED vars]_vars

\* a fetch of site 2 fails while the walker of site 1 is in the middle of its
\* walk with entries already recorded
C8_Witness ==
  /\ FetchFailed(2) /\ ~Running
  /\ wk[1].pc \in {"each", "fetch", "fswalk"}
  /\ siteCounter[1] >= 1

\* C9: a listing request answered with a non-2xx status ends the run with a
\* non-zero status, and no anchor of that answer's body becomes an entry.
C9_NonSuccessIsFatal ==
  \A s \in Sites :
    wk[s].resp = "ok404" =>
      /\ exit.code = 1
      /\ \A k \in DOMAIN siteMap[s] : ~HasSuffix(k, <<"h">>)

\* C11: when the local root is not a writable directory (missing, not a
\* directory, owner write bit unset, or owned by another user) the process
\* leaves downloadManager only by exiting with status 1, and at no time is a job
\* in the channel, a worker started or a file operation done.
C11_NotWritableAborts ==
  localStat # "ok" =>
    /\ mpc = "writable"
    /\ Running \/ (exit.code = 1 /\ exit.by \in {"fatal", "notwritable"})
    /\ fileschan = <<>> /\ recvLog = <<>> /\ startLog = <<>>
    /\ wg = 0 /\ tpc = "idle"
    /\ \A i \in Workers : wpc[i] = "idle"
    /\ ops = {}

\* the process has exited on a read-only local root with jobs to do and workers
\* configured
C11_Witness ==
  /\ localStat = "readonly" /\ exit = [code |-> 1, by |-> "notwritable"]
  /\ filelist # <<>> /\ throttle >= 1 /\ ~dryrun

\* C12: the timer fires only when a timeout greater than zero is configured; the
\* step in which it fires ends the process with status 0 and changes nothing
\* else (no channel is closed, no worker is told anything, the queue keeps its
\* jobs), and after it no worker, nor the manager, takes another step.
C12_TimeoutExits ==
  /\ [](exit.by = "timeout" => (exit.code = 0 /\ timeout > 0))
  /\ [][(exit.by # "timeout" /\ exit'.by = "timeout") =>
          UNCHANGED <<fileschan, timechanClosed, wpc, wfile, wexit, wg, mpc,
                      recvLog, startLog, errLog, fs, ops>>]_vars
  /\ [][exit.by = "timeout" => UNCHANGED vars]_vars

\* the timer has fired while one worker was between creating and copying a
\* file and a job was still queued
C12_Witness ==
  /\ exit = [code |-> 0, by |-> "timeout"]
  /\ \E i \in Workers : wpc[i] = "copy"
  /\ fileschan # <<>>
  /\ mpc = "wait"

\* every worker the manager started has called wg.Done and returned
AllWorkersExited == \A i \in Started : wpc[i] = "exited"

\* C13 as stated: when all workers (at least one) have finished before the timer
\* fires, the timer never ends the process.
C13_CancelledCleanly ==
  (throttle >= 1 /\ timeout > 0 /\ AllWorkersExited) => exit.by # "timeout"

\* C13: the watcher returns only on the closed channel, which is closed only
\* after every started worker has finished, and once it has returned the timer
\* never ends the process; until it has returned the timer can still fire, also
\* after all workers have finished, and then the process ends with status 0.
C13_CancelOrExitZero ==
  /\ tpc = "returned" =>
       /\ timechanClosed /\ mpc = "returned" /\ wg = 0
       /\ AllWorkersExited
       /\ exit.by # "timeout"
  /\ timechanClosed => (wg = 0 /\ AllWorkersExited)
  /\ (exit.by = "timeout" /\ AllWorkersExited) => (exit.code = 0 /\ tpc = "select")

\* two workers have drained the queue, the manager has closed the channel and
\* the watcher has returned on it
C13_Witness ==
  /\ tpc = "returned" /\ timeout > 0 /\ throttle = 2
  /\ \A i \in Started : wexit[i] = "drained"
  /\ Len(recvLog) = 2
  /\ Running

\* walker s is about to be handed the next anchor of its current page
AtAnchor(s) ==
  /\ wk[s].pc = "each"
  /\ wk[s].stack[Len(wk[s].stack)].anchors # <<>>

\* what the rule of C14 requires of the step of walker s that handles an
\* accepted anchor a below the page [url, name]
InsertedByRule(s, parent, a) ==
  LET plain == parent.name \o a.text
      dir == a.href # <<>> /\ a.href[Len(a.href)] = "/"
      key == IF dir /\ plain[Len(plain)] # "/" THEN plain \o <<"/">> ELSE plain
      value == parent.url \o a.href
  IN /\ DOMAIN siteMap'[s] = DOMAIN siteMap[s] \cup {key}
     /\ siteMap'[s][key] = value
     /\ \A k \in DOMAIN siteMap[s] \ {key} : siteMap'[s][k] = siteMap[s][k]
     /\ IF dir
          THEN wk'[s].pc = "fetch" /\ wk'[s].req = [url |-> value, name |-> key]
          ELSE wk'[s].pc = "each"

\* the pages walker s is inside of: each is the entry of a key of the map, below
\* the page that holds it
NestingFollowsKeys(s) ==
  \A j \in 1..Len(wk[s].stack) :
    LET page == wk[s].stack[j]
    IN IF j = 1
         THEN page.name = <<>> /\ page.url = <<>>
         ELSE /\ page.name \in DOMAIN siteMap[s]
              /\ siteMap[s][page.name] = page.url
              /\ HasPrefix(page.name, wk[s].stack[j - 1].name)
              /\ HasPrefix(page.url, wk[s].stack[j - 1].url)

\* an entry found below a directory entry has the directory's key as a prefix
AncestorIsPrefix(s) ==
  \A k, d \in DOMAIN siteMap[s] :
    (HasPrefix(Root(s), Http) /\ HasSuffix(siteMap[s][d], Slash)
       /\ HasPrefix(siteMap[s][k], siteMap[s][d])) => HasPrefix(k, d)

\* C14: the step of walkLink for an accepted anchor (text not ignored, href
\* present), at any depth, inserts exactly the key parent name + text (+ "/" when
\* the href ends in "/" and the name does not) with the value parent locator +
\* href, and goes into the entry with that name and locator exactly when the href
\* ends in "/"; so every page being walked is an entry below its parent page, and
\* every descendant's key has its ancestor's key as a prefix.
C14_KeyAndLocator ==
  /\ [][\A s \in Sites :
          (AtAnchor(s) /\ wk'[s] # wk[s]) =>
            LET parent == wk[s].stack[Len(wk[s].stack)]
                a == Head(parent.anchors)
            IN (a.text \notin ignoreThese /\ a.hasHref) => InsertedByRule(s, parent, a)]_vars
  /\ [](\A s \in Sites : NestingFollowsKeys(s) /\ AncestorIsPrefix(s))

\* both styles of listing were walked: text "d" with href "d/" on one server,
\* and on the other an entry two directories down whose key carries the anchor
\* texts and whose locator carries the hrefs
C14_Witness ==
  /\ url1 = HttpRemoteRoot /\ url2 = HttpRootY
  /\ <<"d", "/">> \in DOMAIN siteMap[1] /\ <<"d", "/", "b">> \in DOMAIN siteMap[1]
  /\ <<"d", "/", "g", "/", "/", "f">> \in DOMAIN siteMap[2]
  /\ siteMap[2][<<"d", "/", "g", "/", "/", "f">>] = <<"d", "/", "g", "/", "f">>
  /\ \A s \in Sites : wk[s].pc = "finished"

\* the entry of key k of site s is a directory: over HTTP its href, which ends
\* its locator, ends in "/"; on a filesystem its locator is the path of a
\* directory of the tree, below the root or in full
IsDirEntry(s, k) ==
  IF HasPrefix(Root(s), Http)
    THEN HasSuffix(siteMap[s][k], Slash)
    ELSE \E j \in 1..Len(Tree(Root(s))) :
           /\ Tree(Root(s))[j].isDir
           /\ siteMap[s][k] \in {Tree(Root(s))[j].rel, NodePath(Root(s), Tree(Root(s))[j])}

EndsInOneSlash(k) == HasSuffix(k, Slash) /\ ~HasSuffix(k, <<"/", "/">>)

C16_IgnoredAnchors ==
  /\ [][\A s \in Sites :
          (AtAnchor(s) /\ wk'[s] # wk[s]) =>
            LET n == Len(wk[s].stack)
                a == Head(wk[s].stack[n].anchors)
            IN a.text \in ignoreThese =>
                 /\ siteMap'[s] = siteMap[s]
                 /\ siteCounter'[s] = siteCounter[s]
                 /\ wk'[s].pc = "each"
                 /\ Len(wk'[s].stack) = n
                 /\ wk'[s].stack[n].anchors = Tail(wk[s].stack[n].anchors)]_vars
  /\ [](\A s \in Sites : \A t \in ignoreThese :
          HasPrefix(Root(s), Http) =>
            (t \notin DOMAIN siteMap[s] /\ (t \o Slash) \notin DOMAIN siteMap[s]))

\* both servers were walked to the end with every answer a listing: the first
\* has five anchors of which "Name" and the one without href are left out, the
\* second has "../" with href "../" and six entries, one of them listed twice
C16_Witness ==
  /\ url1 = HttpRemoteRoot /\ url2 = HttpRootY
  /\ \A s \in Sites : wk[s].pc = "finished"
  /\ siteCounter[1] = 3 /\ Cardinality(DOMAIN siteMap[1]) = 3
  /\ siteCounter[2] = 7 /\ Cardinality(DOMAIN siteMap[2]) = 6
  /\ <<"d", "/", "g", "/", "/", "f">> \in DOMAIN siteMap[2]

\* the remote root joined with the locator site2Map records for the job
RemoteAddrByLocator(file) == RemotePath \o siteMap[2][file]

\* C17 as stated: every address a worker has asked of the remote root for a job
\* is the remote root joined with the locator recorded for the job in site2Map.
C17_FetchesLocator ==
  \A o \in ops : o[1] = "get" => o[3] = RemoteAddrByLocator(o[2])

\* the run has one of the configuration errors: identical roots, an http root
\* that is not a valid URL, a filesystem root that does not exist, --download
\* with an HTTP site 1
BadConfiguration ==
  \/ url1 = url2
  \/ url1 \in {BadUrl, MissingRoot}
  \/ url2 \in {BadUrl, MissingRoot}
  \/ download /\ url1 \in {HttpRemoteRoot, HttpRootY}

\* C18: in a run with a configuration error main never leaves its checks other
\* than by exiting with status 1, and at no time is a walker started, a listing
\* fetched, an entry recorded, the progress display started, anything printed by
\* the differ, or a worker started.
C18_ConfigErrorExits ==
  BadConfiguration =>
    /\ mpc = "validate"
    /\ Running \/ exit = [code |-> 1, by |-> "config"]
    /\ \A s \in Sites :
         /\ wk[s] = WalkerIdle
         /\ siteMap[s] = <<>> /\ siteCounter[s] = 0
    /\ wg = 0 /\ upc = "idle" /\ out = <<>>
    /\ filelist = <<>> /\ fileschan = <<>> /\ ops = {}
    /\ \A i \in Workers : wpc[i] = "idle"

\* the process has exited with status 1 for --download with an HTTP site 1,
\* both roots being valid and different
C18_Witness ==
  /\ exit = [code |-> 1, by |-> "config"]
  /\ download /\ url1 = HttpRemoteRoot /\ url2 = HttpRootY

\* C19 as stated: a walker that has ended its traversal can always go on to
\* its wg.Done, whatever updateProgress does or has done.
C19_WalkerNeverWaits ==
  \A s \in Sites :
    (Running /\ wk[s].pc = "walked") => ENABLED (WalkNoSend(s) \/ ProgressDone(s))

\* C19: updateProgress changes no map, counter, list or exit status, but with
\* the progress display on the control flow waits for it: a walker calls wg.Done
\* only after updateProgress has received its done message, and main enters the
\* diff phase only after updateProgress has received the stop message and
\* returned; with --noprogress updateProgress is not started and nothing is sent.
C19_ReporterSynchronises ==
  /\ [](\A s \in Sites :
          /\ (~noprogress /\ wk[s].pc \in {"wgdone", "finished"}) => pdone[s]
          /\ pdone[s] => (~noprogress /\ upc # "idle"))
  /\ []((~noprogress /\ InDiff) => upc = "returned")
  /\ [](noprogress => upc = "idle")
  /\ [][(upc' # upc \/ pdone' # pdone) =>
          UNCHANGED <<siteMap, siteCounter, out, filelist, exit, wg>>]_vars

\* with the display on, a walker stands at its send while the other is still
\* walking, and updateProgress has already taken the done message of neither
C19_Witness ==
  /\ ~noprogress /\ upc = "loop"
  /\ wk[1].pc = "walked" /\ ~pdone[1] /\ siteCounter[1] >= 1
  /\ wk[2].pc \in {"each", "fetch", "fswalk"}

\* C20 as stated: the manager is past wg.Wait only when every worker it started
\* has called wg.Done and returned, and once it waits it eventually returns
\* unless the timer ends the process.
C20_ManagerReturns ==
  /\ [](mpc \in {"close", "returned"} => (wg = 0 /\ AllWorkersExited))
  /\ (mpc = "wait") ~> (mpc = "returned" \/ exit.by = "timeout")

\* the name ends in "/" or in ".sitescandl"
SkipName(f) ==
  \/ f # <<>> /\ f[Len(f)] = "/"
  \/ HasSuffix(f, <<".", "s", "i", "t", "e", "s", "c", "a", "n", "d", "l">>)

\* C21: the step in which a worker receives a job whose name ends in "/" or in
\* ".sitescandl" changes nothing but the channel and the record of receipts: the
\* worker stays in its loop at the receive, and nothing is ever started, asked of
\* the remote root, created, renamed, reported as an error or left on disk for
\* such a job.
C21_SkippedJobs ==
  /\ [](\A f \in Jobs : SkipName(f) =>
          /\ \A o \in ops : o[2] # f
          /\ \A n \in 1..Len(startLog) : startLog[n].file # f
          /\ \A e \in errLog : e[2] # f
          /\ fs.final[f] = NoFile /\ fs.temp[f] = NoFile)
  /\ [][\A i \in Workers :
          (Len(recvLog') = Len(recvLog) + 1
             /\ recvLog'[Len(recvLog')].w = i
             /\ SkipName(recvLog'[Len(recvLog')].file)) =>
            /\ wpc'[i] = "recv" /\ wexit'[i] = wexit[i]
            /\ UNCHANGED <<fs, ops, errLog, startLog, wg, exit>>]_vars

\* one worker received the directory job, then the file below it, and linked
\* that file
C21_Witness ==
  /\ ~dryrun /\ Len(recvLog) = 2
  /\ recvLog[1].file = dD /\ recvLog[2].file = fDB
  /\ recvLog[1].w = recvLog[2].w
  /\ <<"link", fDB>> \in ops

\* walker s has returned from walkLink or walkFS
WalkComplete(s) == wk[s].pc \in {"walked", "wgdone", "finished"}

\* C22 as stated: when a walk is complete the Visit Counter equals the number
\* of entries of the walker's map.
C22_CounterEqualsEntries ==
  \A s \in Sites :
    WalkComplete(s) => siteCounter[s] = Cardinality(DOMAIN siteMap[s])

\* walker s has met the listing that names the entry "f" twice
ListedTwice(s) ==
  Root(s) = HttpRootY /\ <<"d", "/", "g", "/", "/", "f">> \in DOMAIN siteMap[s]

\* C22: a Visit Counter never decreases and grows by one at a time, in the very
\* step that stores an entry; it counts the accepted anchors or visited paths, so
\* it is never below the number of entries of the map. When the walk is complete
\* it equals that number for a filesystem walk and for an HTTP walk in which no
\* two accepted anchors gave the same key; an entry listed twice is stored once
\* and counted twice.
C22_CounterCountsInserts ==
  /\ [][\A s \in Sites :
          /\ siteCounter'[s] \in {siteCounter[s], siteCounter[s] + 1}
          /\ siteMap'[s] # siteMap[s] => siteCounter'[s] = siteCounter[s] + 1
          /\ siteCounter'[s] # siteCounter[s] =>
               (wk'[s] # wk[s] /\ DOMAIN siteMap'[s] # {})]_vars
  /\ [](\A s \in Sites :
          /\ Cardinality(DOMAIN siteMap[s]) <= siteCounter[s]
          /\ (WalkComplete(s) /\ ~ListedTwice(s)) =>
               siteCounter[s] = Cardinality(DOMAIN siteMap[s])
          /\ (WalkComplete(s) /\ ListedTwice(s)) =>
               siteCounter[s] = Cardinality(DOMAIN siteMap[s]) + 1)

\* a filesystem walk and the HTTP walk of the listing with the repeated entry
\* are both complete: four paths counted for four entries, seven anchors counted
\* for six entries
C22_Witness ==
  /\ url1 = LocalRoot /\ url2 = HttpRootY
  /\ \A s \in Sites : wk[s].pc = "finished"
  /\ siteCounter[1] = 4 /\ Cardinality(DOMAIN siteMap[1]) = 4
  /\ siteCounter[2] = 7 /\ Cardinality(DOMAIN siteMap[2]) = 6


\* site s is walked by walkFS
FsSite(s) == ~HasPrefix(Root(s), Http)

\* a path with a segment that begins with "."
HiddenSegment(k) ==
  /\ k # <<>>
  /\ \/ k[1] = "."
     \/ \E j \in 1..(Len(k) - 1) : k[j] = "/" /\ k[j + 1] = "."

\* the entries of a tree that are not hidden and lie in no hidden directory
VisibleNodes(tree) ==
  {j \in 2..Len(tree) : ~HiddenSegment(tree[j].rel)}

\* C23: in a map produced by walkFS no key has a segment below the root that
\* begins with ".": hidden files and hidden directories with all they hold are
\* left out, and none of them is counted, so the counter never exceeds the number
\* of visible entries; a root with a hidden name is walked all the same, its
\* visible entries being exactly the keys when the walk has ended.
C23_HiddenExcluded ==
  \A s \in Sites :
    FsSite(s) =>
      /\ \A k \in DOMAIN siteMap[s] : ~HiddenSegment(TrimPrefix(k, Clean(Root(s))))
      /\ siteCounter[s] <= Cardinality(VisibleNodes(Tree(Root(s))))
      /\ (Root(s) = HiddenRoot /\ wk[s].pc = "finished") =>
           /\ DOMAIN siteMap[s] = {Tree(HiddenRoot)[j].rel : j \in VisibleNodes(Tree(HiddenRoot))}
           /\ siteCounter[s] = 1

\* both walks have ended: one under a root with a hidden name, which gave its
\* entry, the other past a hidden file at the top and one in a directory
C23_Witness ==
  /\ url1 = HiddenRoot /\ url2 = FsRemoteRoot
  /\ wk[1].pc = "finished" /\ wk[2].pc = "finished"
  /\ DOMAIN siteMap[1] = {<<"m">>}
  /\ DOMAIN siteMap[2] = {<<"c">>, <<"d", "/">>, <<"d", "/", "b">>}
  /\ siteCounter[2] = 3

\* the key of an entry of a tree walked from a root given without a trailing
\* separator
RelKey(node) == IF node.isDir THEN node.rel \o Slash ELSE node.rel

\* node j is the directory d that could not be read, or lies below it
Unread(tree, j) ==
  \E d \in 1..Len(tree) : tree[d].flaky /\ (j = d \/ Below(tree, j, d))

\* walkFS has returned for site s
FsWalked(s) == wk[s].pc \in {"walked", "wgdone", "finished"}

\* C24: a permission error that filepath.Walk reports for a directory ends
\* neither the process nor the walker: the step changes no map, no counter and no
\* exit status and leaves the walker in its walk; the directory and what it
\* holds give no entry, every visible entry outside it has its entry when the
\* walk has returned; any other error of the walk ends the process as a fatal
\* error with status 1.
C24_PermissionSkipsSubtree ==
  /\ [][\A s \in Sites :
          (wk[s].pc = "fswalk" /\ wk[s].resp = "none" /\ wk'[s].resp = "perm") =>
            /\ exit' = exit /\ siteMap' = siteMap /\ siteCounter' = siteCounter
            /\ wk'[s].pc = "fswalk" /\ wk'[s].pos > wk[s].pos]_vars
  /\ [](\A s \in Sites :
          (FsSite(s) /\ Root(s) = Clean(Root(s)) /\ wk[s].resp = "perm") =>
            LET tree == Tree(Root(s))
            IN /\ \A j \in 2..Len(tree) :
                    Unread(tree, j) => RelKey(tree[j]) \notin DOMAIN siteMap[s]
               /\ FsWalked(s) =>
                    \A j \in VisibleNodes(tree) :
                      ~Unread(tree, j) => RelKey(tree[j]) \in DOMAIN siteMap[s])
  /\ [](\A s \in Sites :
          (FsSite(s) /\ wk[s].resp = "other") => exit = [code |-> 1, by |-> "fatal"])

\* the walk of the local root met a permission error at the directory d and has
\* ended normally: d and d/b have no entry, the sibling e after d has one
C24_Witness ==
  /\ url1 = LocalRoot
  /\ wk[1].pc = "finished" /\ wk[1].resp = "perm"
  /\ exit.code = 0
  /\ DOMAIN siteMap[1] = {<<"a">>, <<"e">>}

\* C25: the walkers, updateProgress and main never block one another for good.
\* Unless the configuration is refused or a walk ends the process with a fatal
\* error, main eventually reaches the diff phase; it is there only when both
\* walkers got past their send on the done channel and called wg.Done, wg.Wait
\* returned and, with progress reporting on, main's send on stopupdating was
\* received and updateProgress returned; when updateProgress has returned it has
\* received the done signal of both walkers. With --noprogress no done signal is
\* sent, updateProgress is never started, and main still gets past wg.Wait.
C25_HandshakeCompletes ==
  /\ <>(InDiff \/ exit.by \in {"fatal", "config"})
  /\ [](InDiff =>
          /\ wg = 0 /\ wk[1].pc = "finished" /\ wk[2].pc = "finished"
          /\ ~noprogress => upc = "returned")
  /\ [](upc = "returned" => pdone[1] /\ pdone[2])
  /\ [](noprogress => upc = "idle" /\ ~pdone[1] /\ ~pdone[2] /\ mpc # "stop")

\* with progress reporting on, both done signals were received, both walkers
\* called wg.Done, main passed the barrier and its stop signal ended updateProgress
C25_Witness ==
  /\ ~noprogress
  /\ upc = "returned" /\ pdone[1] /\ pdone[2]
  /\ wk[1].pc = "finished" /\ wk[2].pc = "finished"
  /\ wg = 0 /\ mpc = "diff"

\* C26: in the filesystem transfer a temp-suffixed file left by an earlier run
\* is gone once the worker is past the removal and before it creates its own
\* temp file, and a job that was completed by a hard link leaves the content of
\* the remote file under the final name.
C26_StaleTempRemoved ==
  \A i \in Workers :
    wfile[i] \in JobNames =>
      /\ (wpc[i] \in {"stat", "link", "open", "create"}) => ~fs.temp[wfile[i]].exists
      /\ (DoneWith(i) /\ <<"link", wfile[i]>> \in ops) =>
           /\ fs.final[wfile[i]].exists
           /\ fs.final[wfile[i]].content = RemoteContent(wfile[i])

\* C27: no step of a worker changes a file under the remote root: the mode of
\* every remote file stays what it was before the run, also for a job that was
\* completed by a hard link.
C27_RemoteUntouched ==
  \A n \in JobNames : fs.rmode[n] = InitFs(filelist, FALSE).rmode[n]

\* downloadManager is past its spawn loop
PoolStarted == mpc \in {"wait", "close", "returned"}

\* C28 as stated: when the manager has returned with a throttle of at least 1
\* and no worker left its loop on an error, the queue is empty and every job of
\* the list was taken up by a worker that went on to transfer it.
C28_EveryJobAttempted ==
  (mpc = "returned" /\ throttle >= 1 /\ \A i \in Workers : wexit[i] # "error") =>
    /\ fileschan = <<>>
    /\ \A k \in 1..Len(filelist) : StartCount(filelist[k]) >= 1

\* C28: once the spawn loop has ended the workers that were started are exactly
\* the workers 1..throttle, none for a throttle below 1. When the manager has
\* returned with a throttle of at least 1 and no worker left its loop on an
\* error, the queue is empty, every job was received exactly once and every job
\* that is not skipped was reported as started. When it has returned with a
\* throttle below 1 the queue still holds every job, no job was received or
\* started, no error was reported and the process has not ended with an error.
C28_ThrottleWorkers ==
  /\ PoolStarted =>
       /\ {i \in Workers : wpc[i] # "idle"} = 1..throttle
       /\ wg <= Cardinality(1..throttle)
  /\ (mpc = "returned" /\ throttle >= 1 /\ \A i \in Workers : wexit[i] # "error") =>
       /\ fileschan = <<>>
       /\ \A k \in 1..Len(filelist) :
            /\ RecvCount(filelist[k]) = 1
            /\ ~Skipped(filelist[k]) => StartCount(filelist[k]) = 1
       /\ Len(recvLog) = Len(filelist)
  /\ (mpc = "returned" /\ throttle < 1) =>
       /\ fileschan = filelist
       /\ recvLog = <<>> /\ startLog = <<>> /\ ops = {}
       /\ errLog = {}
       /\ exit.code \in {-1, 0}

\* two workers were started for two jobs, both left their loop without an error
\* and the manager returned with the queue drained
C28_Witness ==
  /\ throttle = 2 /\ Len(filelist) = 2
  /\ mpc = "returned"
  /\ wpc[1] = "exited" /\ wpc[2] = "exited"
  /\ wexit[1] # "error" /\ wexit[2] # "error"
  /\ fileschan = <<>> /\ Len(recvLog) = 2
  /\ recvLog[1].w # recvLog[2].w

\* C29: every key and every locator that walkFS records is relative to the root
\* it was given, with or without a trailing separator: none begins with the
\* path of the root.
C29_KeysRelativeToRoot ==
  \A s \in Sites :
    FsSite(s) =>
      \A k \in DOMAIN siteMap[s] :
        /\ ~HasPrefix(k, Clean(Root(s)))
        /\ ~HasPrefix(siteMap[s][k], Clean(Root(s)))
=============================================================================
